---- MODULE Spec2Model ----
(***************************************************************************)
(* Model of the QOI encoder of zune-qoi (crates/zune-qoi/src/encoder.rs).  *)
(*                                                                         *)
(* One QoiEncoder object is modelled: its fields are fixed by `new`, and   *)
(* calls of encode / encode_into / set_color_characteristics are made on   *)
(* it one after the other.  A call of encode_into is split at the points   *)
(* of its pixel loop: the header stage, one step per pixel, and the final  *)
(* flush with the trailer.                                                 *)
(*                                                                         *)
(* Two pure functions of the repository are modelled beside it, each with  *)
(* its own specification: the format sniffer guess_format of zune-image    *)
(* (crates/zune-image/src/codecs.rs) and the checksum crc32_slice8 of      *)
(* zune-png (crates/zune-png/src/crc.rs), fed one slice after the other.   *)
(*                                                                         *)
(* Numbers.  A byte is a number in 0..255.  A usize (64 bits) is written   *)
(* as a record [hi, lo] standing for hi * 2^32 + lo, because the model     *)
(* checker's integers end below 2^31; the digits the model uses stay far   *)
(* below 2^32, so no carry ever passes between the two digits.  A u32 is   *)
(* written as two 16-bit halves [hi, lo].                                  *)
(***************************************************************************)
EXTENDS Integers, Sequences, FiniteSets, TLC

VARIABLES
    pixel_data,             \* QoiEncoder.pixel_data : [len : usize, bytes : Seq(byte)]
    options,                \* QoiEncoder.options : [width, height, colorspace]
    color_characteristics,  \* QoiEncoder.color_characteristics
    pc,                     \* position of the current call: "idle", "loop", "done"
    api,                    \* which entry point is running: "none", "encode", "encode_into"
    stream,                 \* the ZByteWriter of the call: [buf_len, bytes, panicked]
    index,                  \* local `index` of encode_into
    px,                     \* local `px`
    px_prev,                \* local `px_prev`
    run,                    \* local `run`
    pos,                    \* number of pixel chunks the loop has consumed
    result,                 \* what the call returned (see NoResult)
    last_result,            \* kind of the result of the call made before the current
                            \* one, when that call was followed at once by this one
    file_bytes,             \* guess_format: the argument `bytes`
    guessed,                \* guess_format: the value returned ("unset" before the call)
    crc_data,               \* crc32_slice8: the bytes to checksum
    crc_seed,               \* crc32_slice8: the argument `crc` of the first call
    crc_calls,              \* crc32_slice8: the lengths of the slices of crc_data
                            \* passed to the calls made so far, one after the other
    crc_value               \* crc32_slice8: the value returned by the latest call

vars == <<pixel_data, options, color_characteristics, pc, api, stream, index,
          px, px_prev, run, pos, result, last_result, file_bytes, guessed,
          crc_data, crc_seed, crc_calls, crc_value>>

\* the state of the sniffer and of the checksum
pure_vars == <<file_bytes, guessed, crc_data, crc_seed, crc_calls, crc_value>>

-----------------------------------------------------------------------------
(* Bounds of the model *)

\* longest image (in pixels) whose pixels are drawn freely from Palette
MaxPixels == 3
\* images of one repeated pixel have 62*k-1, 62*k or 62*k+1 pixels, k <= MaxRunBlocks
MaxRunBlocks == 2
\* buffers handed to encode_into have 0..MaxBuf bytes
MaxBuf == 38
\* longest image (in pixels) of the encoders that are called again right
\* after a call returned
MaxCallPixels == 1

-----------------------------------------------------------------------------
(* Bytes and fixed-width integers *)

Byte == 0..255

Pow2(n) == 2^n

RECURSIVE BitOr(_, _)
BitOr(a, b) ==
    IF a = 0 THEN b
    ELSE IF b = 0 THEN a
    ELSE (IF a % 2 = 1 \/ b % 2 = 1 THEN 1 ELSE 0) + 2 * BitOr(a \div 2, b \div 2)

\* u8 << n : bits shifted out of the byte are lost
Shl8(a, n) == (a * Pow2(n)) % 256

\* a subtraction that stops at 0
saturating_sub(a, b) == IF a >= b THEN a - b ELSE 0

wrapping_sub(a, b) == (a - b + 256) % 256

wrapping_add(a, b) == (a + b) % 256

\* a usize hi * 2^32 + lo
USize(h, l) == [hi |-> h, lo |-> l]

\* usize multiplication: the product modulo 2^64 and whether it overflowed
\* (the hi*hi term is a multiple of 2^64)
MulUSize(a, b) ==
    [val |-> USize(a.hi * b.lo + a.lo * b.hi, a.lo * b.lo),
     ovf |-> a.hi * b.hi > 0]

AddUSize(a, b) == USize(a.hi + b.hi, a.lo + b.lo)

\* a comparison that lets 2^32 itself pass
ExceedsU32_above(a) == a.hi > 0 /\ a.lo > 0

\* (x as u64) > u64::from(u32::MAX)
ExceedsU32(a) == a.hi > 0

\* x as u32 : the low 32 bits, as two 16-bit halves
AsU32(a) == [hi |-> a.lo \div 65536, lo |-> a.lo % 65536]

\* a u32 given by a number below 2^31
U32(v) == [hi |-> v \div 65536, lo |-> v % 65536]

\* u32::to_be_bytes
to_be_bytes(v) == << v.hi \div 256, v.hi % 256, v.lo \div 256, v.lo % 256 >>

\* u32::from_be_bytes
from_be_bytes(b) == [hi |-> b[1] * 256 + b[2], lo |-> b[3] * 256 + b[4]]

-----------------------------------------------------------------------------
(* crate::constants *)

QOI_HEADER_SIZE == 14

QOI_PADDING == 8

\* 0x716F6966, "qoif"
QOI_MAGIC == 1903126886

QOI_OP_INDEX == 0

QOI_OP_DIFF == 64

QOI_OP_LUMA == 128

QOI_OP_RUN == 192

QOI_OP_RGB == 254

QOI_OP_RGBA == 255

-----------------------------------------------------------------------------
(* zune_core::colorspace *)

ColorSpaces == {"RGB", "RGBA", "Luma", "YCbCr"}

SUPPORTED_COLORSPACES == <<"RGB", "RGBA">>

ColorCharacteristics == {"sRGB", "Linear"}

\* ColorSpace::num_components
num_components(cs) ==
    CASE cs = "RGB" -> 3
      [] cs = "RGBA" -> 4
      [] cs = "YCbCr" -> 3
      [] cs = "Luma" -> 1

-----------------------------------------------------------------------------
(* zune_core::bytestream::ZByteWriter over a buffer of buf_len bytes.       *)
(* `bytes` are the bytes written so far, so the cursor is Len(bytes).  A    *)
(* write that does not fit is a caller error whose outcome is left open:    *)
(* the write is dropped with the cursor unchanged, or the call panics.      *)
(* `overflowed` records that some write did not fit.                        *)

OverflowOutcomes == {"drop", "panic"}

ZByteWriter_new(len) ==
    [buf_len |-> len, bytes |-> <<>>, panicked |-> FALSE, overflowed |-> FALSE]

position(w) == Len(w.bytes)

has(w, n) == w.buf_len.hi > 0 \/ position(w) + n <= w.buf_len.lo

write_all(w, bs, mode) ==
    IF w.panicked THEN w
    ELSE IF has(w, Len(bs)) THEN [w EXCEPT !.bytes = @ \o bs]
    ELSE IF mode = "drop" THEN [w EXCEPT !.overflowed = TRUE]
    ELSE [w EXCEPT !.overflowed = TRUE, !.panicked = TRUE]

write_u8(w, v, mode) == write_all(w, <<v>>, mode)

write_u32_be(w, v, mode) == write_all(w, to_be_bytes(v), mode)

\* v is a u64 given as [hi, lo], two 32-bit digits below 2^31
write_u64_be(w, v, mode) ==
    write_all(w, to_be_bytes(U32(v.hi)) \o to_be_bytes(U32(v.lo)), mode)

-----------------------------------------------------------------------------
(* Results of a call *)

\* every result carries the same fields; a variant leaves the others blank
NoResult ==
    [kind |-> "none", n |-> 0, msg |-> "", dim |-> USize(0, 0), cs |-> "",
     supported |-> <<>>]

Ok(n) == [NoResult EXCEPT !.kind = "Ok", !.n = n]

Generic(msg) == [NoResult EXCEPT !.kind = "Generic", !.msg = msg]

TooLargeDimensions(dim) ==
    [NoResult EXCEPT !.kind = "TooLargeDimensions", !.dim = dim]

UnsupportedColorspace(cs, supported) ==
    [NoResult EXCEPT !.kind = "UnsupportedColorspace", !.cs = cs,
                     !.supported = supported]

\* an arithmetic overflow under overflow-checks, or a writer that panics
Panic == [NoResult EXCEPT !.kind = "panic"]

-----------------------------------------------------------------------------
(* QoiEncoder *)

\* width * height * n in usize arithmetic: the wrapped value and whether a
\* multiplication overflowed
DimProduct(opts, n) ==
    LET wh  == MulUSize(opts.width, opts.height)
        whn == MulUSize(wh.val, USize(0, n))
    IN  [val |-> whn.val, ovf |-> wh.ovf \/ whn.ovf]

\* the bound without the byte of the opcode tag
max_size_no_tag(opts) ==
    LET p == DimProduct(opts, num_components(opts.colorspace))
    IN  [val |-> AddUSize(AddUSize(p.val, USize(0, QOI_HEADER_SIZE)),
                          USize(0, QOI_PADDING)),
         ovf |-> p.ovf]

\* the bound without the trailer
max_size_no_padding(opts) ==
    LET p == DimProduct(opts, num_components(opts.colorspace) + 1)
    IN  [val |-> AddUSize(p.val, USize(0, QOI_HEADER_SIZE)), ovf |-> p.ovf]

max_size(opts) ==
    LET p == DimProduct(opts, num_components(opts.colorspace) + 1)
    IN  [val |-> AddUSize(AddUSize(p.val, USize(0, QOI_HEADER_SIZE)),
                          USize(0, QOI_PADDING)),
         ovf |-> p.ovf]

expected_len(opts) == DimProduct(opts, num_components(opts.colorspace))

\* a match on the number of components instead of the colour space
channel_byte_by_count(cs) ==
    IF num_components(cs) \in {3, 4} THEN num_components(cs) ELSE 0

\* the channel byte of the header; 0 stands for the `_` arm of the match
channel_byte(cs) ==
    CASE cs = "RGB" -> 3
      [] cs = "RGBA" -> 4
      [] OTHER -> 0

\* the flag set for sRGB instead of Linear
xtic_byte_inverted(cc) == IF cc = "sRGB" THEN 1 ELSE 0

xtic_byte(cc) == IF cc = "Linear" THEN 1 ELSE 0

\* encode_headers: the writer after the call and Ok(0) or the error.
\* overflow_checks says whether the build panics on arithmetic overflow.
encode_headers(data, opts, cc, w, overflow_checks, mode) ==
    LET exp == expected_len(opts)
    IN
    IF exp.ovf /\ overflow_checks THEN [stream |-> w, res |-> Panic]
    ELSE IF data.len # exp.val THEN
        [stream |-> w, res |-> Generic("Expected length doesn't match pixels length")]
    ELSE IF ~has(w, QOI_HEADER_SIZE) THEN
        [stream |-> w, res |-> Generic("Cannot allocate internal space for headers")]
    ELSE
        LET w1 == write_all(w, to_be_bytes(U32(QOI_MAGIC)), mode)
        IN
        IF ExceedsU32(opts.width) THEN
            [stream |-> w1, res |-> TooLargeDimensions(opts.width)]
        ELSE IF ExceedsU32(opts.height) THEN
            [stream |-> w1, res |-> TooLargeDimensions(opts.height)]
        ELSE
            LET w2 == write_u32_be(w1, AsU32(opts.width), mode)
                w3 == write_u32_be(w2, AsU32(opts.height), mode)
            IN
            IF channel_byte(opts.colorspace) = 0 THEN
                [stream |-> w3,
                 res |-> UnsupportedColorspace(opts.colorspace, SUPPORTED_COLORSPACES)]
            ELSE
                LET w4 == write_u8(w3, channel_byte(opts.colorspace), mode)
                    w5 == write_u8(w4, xtic_byte(cc), mode)
                IN  [stream |-> w5, res |-> Ok(0)]

\* a hash with a wrong multiplier for alpha
index_pos_of_alpha13(p) == (p[1] * 3 + p[2] * 5 + p[3] * 7 + p[4] * 13) % 64

\* the slot of a pixel in the index table
index_pos_of(p) == (p[1] * 3 + p[2] * 5 + p[3] * 7 + p[4] * 11) % 64

\* the RGBA opcode with the pixel assembled in little-endian order
write_rgba_reversed(w, p, mode) ==
    write_u32_be(write_u8(w, QOI_OP_RGBA, mode),
                 from_be_bytes(<<p[4], p[3], p[2], p[1]>>), mode)

\* the RGBA opcode: the tag, then the pixel as a big-endian u32
write_rgba(w, p, mode) ==
    write_u32_be(write_u8(w, QOI_OP_RGBA, mode), from_be_bytes(p), mode)

\* the opcode of a pixel that is neither a run nor an index hit
encode_literal(w, p, prev, mode) ==
    IF p[4] = prev[4] THEN
        LET vr == wrapping_sub(p[1], prev[1])
            vg == wrapping_sub(p[2], prev[2])
            vb == wrapping_sub(p[3], prev[3])
            vg_r == wrapping_sub(vr, vg)
            vg_b == wrapping_sub(vb, vg)
        IN
        IF (vr < 2 \/ vr > 253) /\ (vg < 2 \/ vg > 253) /\ (vb < 2 \/ vb > 253) THEN
            write_u8(w,
                     BitOr(BitOr(BitOr(QOI_OP_DIFF, Shl8(wrapping_add(vr, 2), 4)),
                                 Shl8(wrapping_add(vg, 2), 2)),
                           wrapping_add(vb, 2)),
                     mode)
        ELSE IF (vg_r > 247 \/ vg_r < 8) /\ (vg > 223 \/ vg < 32)
                /\ (vg_b > 247 \/ vg_b < 8) THEN
            write_u8(write_u8(w, BitOr(QOI_OP_LUMA, wrapping_add(vg, 32)), mode),
                     BitOr(Shl8(wrapping_add(vg_r, 8), 4), wrapping_add(vg_b, 8)),
                     mode)
        ELSE
            write_u8(write_u8(write_u8(write_u8(w, QOI_OP_RGB, mode),
                                       p[1], mode), p[2], mode), p[3], mode)
    ELSE
        write_rgba(w, p, mode)

\* a RUN byte that carries the length without the bias of -1
run_byte_unbiased(r) == BitOr(QOI_OP_RUN, r)

\* the RUN byte of a run of r pixels
run_byte(r) == BitOr(QOI_OP_RUN, r - 1)

\* an update that leaves the table as it was
index_store_nothing(idx, p) == idx

\* the index-table update made for a pixel that missed the table
index_store(idx, p) == [idx EXCEPT ![index_pos_of(p)] = p]

\* the body of the pixel loop after the has(5) guard
encode_pixel(w, p, prev, idx, r, mode) ==
    IF p = prev THEN
        IF r + 1 = 62 THEN
            [stream |-> write_u8(w, run_byte(r + 1), mode), index |-> idx, run |-> 0]
        ELSE
            [stream |-> w, index |-> idx, run |-> r + 1]
    ELSE
        LET w1 == IF r > 0 THEN write_u8(w, run_byte(r), mode) ELSE w
        IN
        IF idx[index_pos_of(p)] = p THEN
            [stream |-> write_u8(w1, BitOr(QOI_OP_INDEX, index_pos_of(p)), mode),
             index |-> idx, run |-> 0]
        ELSE
            [stream |-> encode_literal(w1, p, prev, mode),
             index |-> index_store(idx, p), run |-> 0]

\* the trailer without the flush of the pending run
encode_trailer_no_flush(w, r, mode) == write_u64_be(w, [hi |-> 0, lo |-> 1], mode)

\* the final run flush and the trailer
encode_trailer(w, r, mode) ==
    LET w1 == IF r > 0 THEN write_u8(w, run_byte(r), mode) ELSE w
    IN  write_u64_be(w1, [hi |-> 0, lo |-> 1], mode)

-----------------------------------------------------------------------------
(* The encoders the model constructs: QoiEncoder::new(data, options) *)

\* pixel values the images are made of: the initial running pixel, the
\* all-zero pixel of the fresh index table, and pixels that reach the DIFF,
\* RGB, RGBA and LUMA opcodes from it; <<0,0,0,0>> and <<0,0,0,128>> share
\* index slot 0
Palette ==
    { <<0, 0, 0, 255>>, <<0, 0, 0, 0>>, <<1, 0, 255, 255>>,
      <<10, 20, 30, 255>>, <<0, 0, 0, 128>>, <<5, 10, 12, 255>> }

\* the pixels of the long one-colour images
RunPalette == { <<0, 0, 0, 255>>, <<10, 20, 30, 255>> }

RunLens == { 62 * k + d : k \in 1..MaxRunBlocks, d \in {-1, 0, 1} }

\* the packed bytes of a sequence of pixels with n channels each
Flatten(pixs, n) ==
    [k \in 1..(Len(pixs) * n) |-> pixs[((k - 1) \div n) + 1][((k - 1) % n) + 1]]

Zeros(n) == [k \in 1..n |-> 0]

\* a slice whose contents the model holds
Slice(bs) == [len |-> USize(0, Len(bs)), bytes |-> bs]

\* a slice of 2^32 bytes or more: only its length is modelled, the encoder
\* never reads it
HugeSlice(len) == [len |-> len, bytes |-> <<>>]

Options(w, h, cs) == [width |-> w, height |-> h, colorspace |-> cs]

\* a constructor that starts in the linear colour space
new_linear(data, opts) ==
    [pixel_data |-> data, options |-> opts, color_characteristics |-> "Linear"]

new(data, opts) ==
    [pixel_data |-> data, options |-> opts, color_characteristics |-> "sRGB"]

SmallDims == { <<w, h>> \in (0..MaxPixels) \X (0..MaxPixels) : w * h <= MaxPixels }

\* the dimensions of the freely chosen images: every empty shape, and the
\* shapes at least as wide as high
FreeDims == { d \in SmallDims : d[1] >= d[2] \/ d[1] = 0 }

\* well-formed images with freely chosen pixels
FreeImages ==
    { new(Slice(Flatten(pixs, num_components(cs))),
          Options(USize(0, d[1]), USize(0, d[2]), cs)) :
        <<d, cs, pixs>> \in
            { t \in FreeDims \X {"RGB", "RGBA"} \X
                    UNION { [1..n -> Palette] : n \in 0..MaxPixels } :
                Len(t[3]) = t[1][1] * t[1][2] } }

\* well-formed images of one repeated pixel, a column of n pixels
RunImages ==
    { new(Slice(Flatten([k \in 1..n |-> p], num_components(cs))),
          Options(USize(0, 1), USize(0, n), cs)) :
        <<n, p, cs>> \in RunLens \X RunPalette \X {"RGB", "RGBA"} }

\* 1x1 RGBA images whose pixel is not opaque
AlphaImages ==
    { new(Slice(<<r, g, b, a>>), Options(USize(0, 1), USize(0, 1), "RGBA")) :
        <<r, g, b, a>> \in {0, 255} \X {0, 255} \X {0, 255} \X {0, 1, 128, 254} }

\* empty images whose one non-zero dimension fills all four header bytes
\* (0x01020304 and 0x0A0B0C0D)
EmptyImages ==
    { new(Slice(<<>>), Options(USize(0, d[1]), USize(0, d[2]), cs)) :
        <<d, cs>> \in {<<16909060, 0>>, <<0, 168496141>>} \X {"RGB", "RGBA"} }

\* pixel buffers one byte too long or too short
MismatchedImages ==
    { new(Slice(Zeros(len)), Options(USize(0, d[1]), USize(0, d[2]), cs)) :
        <<d, cs, len>> \in
            { t \in SmallDims \X ColorSpaces \X (0..(4 * MaxPixels + 1)) :
                LET e == t[1][1] * t[1][2] * num_components(t[2])
                IN  t[3] = e + 1 \/ t[3] = e - 1 } }

\* colour spaces the encoder does not support, with a buffer of the right length
ForeignImages ==
    { new(Slice(Zeros(d[1] * d[2] * num_components(cs))),
          Options(USize(0, d[1]), USize(0, d[2]), cs)) :
        <<d, cs>> \in SmallDims \X {"Luma", "YCbCr"} }

\* dimensions of 2^32 and more
LargeDim == { USize(1, 0), USize(1, 1) }

TinyDim == { USize(0, 0), USize(0, 1) }

\* images with a dimension beyond u32, with a buffer of the computed
\* (possibly wrapped) length or an empty one
LargeImages ==
    { new(IF len.hi > 0 THEN HugeSlice(len) ELSE Slice(Zeros(len.lo)),
          Options(d[1], d[2], cs)) :
        <<d, cs, len>> \in
            { t \in ((LargeDim \X (TinyDim \cup LargeDim)) \cup (TinyDim \X LargeDim))
                    \X ColorSpaces \X
                    ({USize(0, 0)} \cup
                     { USize(h, l) : <<h, l>> \in (0..8) \X (0..4) }) :
                t[3] = USize(0, 0)
                \/ t[3] = expected_len(Options(t[1][1], t[1][2], t[2])).val } }

Encoders ==
    FreeImages \cup RunImages \cup AlphaImages \cup EmptyImages
        \cup MismatchedImages \cup ForeignImages \cup LargeImages

-----------------------------------------------------------------------------
(* State *)

FreshIndex == [k \in 0..63 |-> <<0, 0, 0, 0>>]

StartPixel == <<0, 0, 0, 255>>

NoStream == ZByteWriter_new(USize(0, 0))

\* guess_format and crc32_slice8 are not in use
NoSniffer == file_bytes = <<>> /\ guessed = "unset"

NoCrc ==
    /\ crc_data = <<>>
    /\ crc_seed = U32(0)
    /\ crc_calls = <<>>
    /\ crc_value = U32(0)

\* the locals of a call that is not running
IdleLocals ==
    /\ stream' = NoStream
    /\ index' = FreshIndex
    /\ px' = StartPixel
    /\ px_prev' = StartPixel
    /\ run' = 0
    /\ pos' = 0

Init ==
    /\ \E e \in Encoders :
          /\ pixel_data = e.pixel_data
          /\ options = e.options
          /\ color_characteristics = e.color_characteristics
    /\ pc = "idle"
    /\ api = "none"
    /\ stream = NoStream
    /\ index = FreshIndex
    /\ px = StartPixel
    /\ px_prev = StartPixel
    /\ run = 0
    /\ pos = 0
    /\ result = NoResult
    /\ last_result = "none"
    /\ NoSniffer
    /\ NoCrc

channel_count == num_components(options.colorspace)

\* self.pixel_data.chunks_exact(channel_count): the number of chunks and the
\* k-th chunk (from 0)
NumChunks == pixel_data.len.lo \div channel_count

Chunk(k) == SubSeq(pixel_data.bytes, k * channel_count + 1, (k + 1) * channel_count)

-----------------------------------------------------------------------------
(* Operations *)

set_color_characteristics(c) ==
    /\ pc = "idle"
    /\ color_characteristics' = c
    /\ UNCHANGED <<pixel_data, options, pc, api, stream, index, px, px_prev, run,
                   pos, result, last_result, pure_vars>>

\* a start that keeps the index table and the run counter of the call before
Start_keeping_locals(entry, len, overflow_checks, mode) ==
    LET h == encode_headers(pixel_data, options, color_characteristics,
                            ZByteWriter_new(len), overflow_checks, mode)
    IN
    /\ api' = entry
    /\ stream' = h.stream
    /\ px' = StartPixel
    /\ px_prev' = StartPixel
    /\ pos' = 0
    /\ IF h.res.kind = "Ok"
       THEN pc' = "loop" /\ result' = NoResult
       ELSE pc' = "done" /\ result' = h.res
    /\ UNCHANGED <<pixel_data, options, color_characteristics, index, run,
                   pure_vars>>

\* the start of encode_into on a buffer of len bytes: the header stage and
\* the initial values of the loop's locals
Start(entry, len, overflow_checks, mode) ==
    LET h == encode_headers(pixel_data, options, color_characteristics,
                            ZByteWriter_new(len), overflow_checks, mode)
    IN
    /\ api' = entry
    /\ stream' = h.stream
    /\ index' = FreshIndex
    /\ px' = StartPixel
    /\ px_prev' = StartPixel
    /\ run' = 0
    /\ pos' = 0
    /\ IF h.res.kind = "Ok"
       THEN pc' = "loop" /\ result' = NoResult
       ELSE pc' = "done" /\ result' = h.res
    /\ UNCHANGED <<pixel_data, options, color_characteristics, pure_vars>>

encode_into ==
    /\ pc = "idle"
    /\ \E len \in 0..MaxBuf, overflow_checks \in BOOLEAN, mode \in OverflowOutcomes :
          Start("encode_into", USize(0, len), overflow_checks, mode)
    /\ UNCHANGED last_result

\* encode: a buffer of max_size() bytes, then encode_into on it
encode ==
    /\ pc = "idle"
    /\ \E overflow_checks \in BOOLEAN, mode \in OverflowOutcomes :
          IF max_size(options).ovf /\ overflow_checks
          THEN /\ api' = "encode"
               /\ pc' = "done"
               /\ result' = Panic
               /\ IdleLocals
               /\ UNCHANGED <<pixel_data, options, color_characteristics,
                              pure_vars>>
          ELSE Start("encode", max_size(options).val, overflow_checks, mode)
    /\ UNCHANGED last_result

\* one iteration of the pixel loop
PixelStep ==
    /\ pc = "loop"
    /\ pos < NumChunks
    /\ LET chunk == Chunk(pos)
           p == [k \in 1..4 |-> IF k <= channel_count THEN chunk[k] ELSE px[k]]
       IN
       /\ px' = p
       /\ IF ~has(stream, 5)
          THEN /\ pc' = "done"
               /\ result' = Generic("Not enough space")
               /\ UNCHANGED <<stream, index, px_prev, run, pos>>
          ELSE \E mode \in OverflowOutcomes :
                  LET e == encode_pixel(stream, p, px_prev, index, run, mode)
                  IN
                  /\ stream' = e.stream
                  /\ index' = e.index
                  /\ run' = e.run
                  /\ IF e.stream.panicked
                     THEN /\ pc' = "done"
                          /\ result' = Panic
                          /\ UNCHANGED <<px_prev, pos>>
                     ELSE /\ px_prev' = p
                          /\ pos' = pos + 1
                          /\ UNCHANGED <<pc, result>>
    /\ UNCHANGED <<pixel_data, options, color_characteristics, api, last_result,
                   pure_vars>>

\* after the loop: the pending run, the trailer, and the return.  encode
\* truncates its vector to the returned length.
Finish ==
    /\ pc = "loop"
    /\ pos = NumChunks
    /\ \E mode \in OverflowOutcomes :
          LET w == encode_trailer(stream, run, mode)
          IN
          /\ stream' = w
          /\ result' = IF w.panicked THEN Panic ELSE Ok(position(w))
    /\ pc' = "done"
    /\ UNCHANGED <<pixel_data, options, color_characteristics, api, index, px,
                   px_prev, run, pos, last_result, pure_vars>>

\* the call is over; its locals are dropped
Return ==
    /\ pc = "done"
    /\ pc' = "idle"
    /\ api' = "none"
    /\ result' = NoResult
    /\ IdleLocals
    /\ last_result' = "none"
    /\ UNCHANGED <<pixel_data, options, color_characteristics, pure_vars>>

Next ==
    \/ \E c \in ColorCharacteristics : set_color_characteristics(c)
    \/ encode_into
    \/ encode
    \/ PixelStep
    \/ Finish
    \/ Return

Spec == Init /\ [][Next]_vars

-----------------------------------------------------------------------------
(* Calls made one right after the other on the same encoder: the next call  *)
(* starts while the values the finished call left behind are still in       *)
(* place.  Images of at most MaxCallPixels pixels.                          *)

encode_into_after_return ==
    /\ pc = "done"
    /\ last_result = "none"
    /\ \E len \in 0..MaxBuf, overflow_checks \in BOOLEAN, mode \in OverflowOutcomes :
          Start("encode_into", USize(0, len), overflow_checks, mode)
    /\ last_result' = result.kind

encode_after_return ==
    /\ pc = "done"
    /\ last_result = "none"
    /\ ~max_size(options).ovf
    /\ \E overflow_checks \in BOOLEAN, mode \in OverflowOutcomes :
          Start("encode", max_size(options).val, overflow_checks, mode)
    /\ last_result' = result.kind

InitCalls ==
    /\ Init
    /\ pixel_data.len.hi = 0
    /\ pixel_data.len.lo <= 4 * MaxCallPixels
    /\ options.width.hi = 0 /\ options.width.lo <= MaxCallPixels
    /\ options.height.hi = 0 /\ options.height.lo <= MaxCallPixels

NextCalls ==
    \/ Next
    \/ encode_into_after_return
    \/ encode_after_return

SpecCalls == InitCalls /\ [][NextCalls]_vars

-----------------------------------------------------------------------------
(* A decoder that follows the published QOI rules, used to state the        *)
(* round trip.  It keeps its own hash and its own byte arithmetic.          *)

QoiHash(p) == (p[1] * 3 + p[2] * 5 + p[3] * 7 + p[4] * 11) % 64

Mod256(x) == (x + 1024) % 256

Min(a, b) == IF a < b THEN a ELSE b

\* the pixels decoded from bs[i..], n pixels still wanted; prev is the running
\* pixel and idx the table, updated with every decoded pixel
RECURSIVE QoiDecodeBody(_, _, _, _, _)
QoiDecodeBody(bs, i, prev, idx, n) ==
    IF n = 0 \/ i > Len(bs) THEN <<>>
    ELSE
        LET b1 == bs[i]
            need == CASE b1 = 254 -> 4
                      [] b1 = 255 -> 5
                      [] b1 \div 64 = 2 -> 2
                      [] OTHER -> 1
        IN
        IF i + need - 1 > Len(bs) THEN <<>>
        ELSE IF b1 # 254 /\ b1 # 255 /\ b1 \div 64 = 3 THEN
            LET k == Min((b1 % 64) + 1, n)
                idx1 == [idx EXCEPT ![QoiHash(prev)] = prev]
            IN  [j \in 1..k |-> prev] \o QoiDecodeBody(bs, i + 1, prev, idx1, n - k)
        ELSE
            LET p == CASE b1 = 254 -> <<bs[i + 1], bs[i + 2], bs[i + 3], prev[4]>>
                       [] b1 = 255 -> <<bs[i + 1], bs[i + 2], bs[i + 3], bs[i + 4]>>
                       [] b1 \div 64 = 0 -> idx[b1 % 64]
                       [] b1 \div 64 = 1 ->
                            << Mod256(prev[1] + ((b1 \div 16) % 4) - 2),
                               Mod256(prev[2] + ((b1 \div 4) % 4) - 2),
                               Mod256(prev[3] + (b1 % 4) - 2),
                               prev[4] >>
                       [] OTHER ->
                            LET vg == (b1 % 64) - 32
                                b2 == bs[i + 1]
                            IN  << Mod256(prev[1] + vg - 8 + (b2 \div 16)),
                                   Mod256(prev[2] + vg),
                                   Mod256(prev[3] + vg - 8 + (b2 % 16)),
                                   prev[4] >>
                idx1 == [idx EXCEPT ![QoiHash(p)] = p]
            IN  <<p>> \o QoiDecodeBody(bs, i + need, p, idx1, n - 1)

\* a big-endian number of four bytes (all the model's are below 2^31)
BE4Value(bs, i) ==
    bs[i] * 16777216 + bs[i + 1] * 65536 + bs[i + 2] * 256 + bs[i + 3]

\* the four bytes of a number below 2^31, most significant first
BE4(n) == << n \div 16777216, (n \div 65536) % 256, (n \div 256) % 256, n % 256 >>

QoiTrailer == <<0, 0, 0, 0, 0, 0, 0, 1>>

\* the image a QOI decoder reads from a stream: its dimensions, its channel
\* count and its packed pixel bytes
QoiDecode(bs) ==
    IF Len(bs) < 14 \/ SubSeq(bs, 1, 4) # <<113, 111, 105, 102>>
    THEN [width |-> -1, height |-> -1, channels |-> 0, bytes |-> <<>>]
    ELSE
        LET w == BE4Value(bs, 5)
            h == BE4Value(bs, 9)
            ch == bs[13]
            pixs == QoiDecodeBody(bs, 15, <<0, 0, 0, 255>>,
                                  [k \in 0..63 |-> <<0, 0, 0, 0>>], w * h)
        IN  [width |-> w, height |-> h, channels |-> ch,
             bytes |-> Flatten(pixs, ch)]

-----------------------------------------------------------------------------
(* Predicates on the input and the outcome of a call *)

Returned == pc = "done"

ReturnedOk == pc = "done" /\ result.kind = "Ok"

\* RGB or RGBA, both dimensions within 32 bits, and as many bytes as
\* width * height * channels
ValidInput ==
    /\ options.colorspace \in {"RGB", "RGBA"}
    /\ options.width.hi = 0
    /\ options.height.hi = 0
    /\ pixel_data.len =
          USize(0, options.width.lo * options.height.lo
                     * (IF options.colorspace = "RGB" THEN 3 ELSE 4))

\* the bytes the caller gets: the first n bytes of the buffer
Output == SubSeq(stream.bytes, 1, result.n)

Body == SubSeq(Output, 15, Len(Output) - 8)

\* the complete stream of the encoder's image: what an unbounded buffer receives
RECURSIVE CompleteBody(_, _, _, _, _, _)
CompleteBody(w, k, p, prev, idx, r) ==
    IF k = NumChunks THEN encode_trailer(w, r, "drop")
    ELSE
        LET chunk == Chunk(k)
            q == [j \in 1..4 |-> IF j <= channel_count THEN chunk[j] ELSE p[j]]
            e == encode_pixel(w, q, prev, idx, r, "drop")
        IN  CompleteBody(e.stream, k + 1, q, q, e.index, e.run)

CompleteStream ==
    LET h == encode_headers(pixel_data, options, color_characteristics,
                            ZByteWriter_new(USize(1, 0)), FALSE, "drop")
    IN  CompleteBody(h.stream, 0, StartPixel, StartPixel, FreshIndex, 0).bytes

-----------------------------------------------------------------------------
(* C1: round trip.  Whenever a call returns Ok and every write fitted (every *)
(* call of encode, and encode_into on a buffer that held the stream), a      *)
(* decoder following the QOI rules reads from the output the encoder's       *)
(* width, height and channel count and exactly the original pixel bytes;     *)
(* so every INDEX opcode refers to a slot holding the intended pixel.        *)
C1_RoundTrip ==
    (ReturnedOk /\ ~stream.overflowed) =>
        LET d == QoiDecode(Output)
        IN  /\ d.width = options.width.lo
            /\ d.height = options.height.lo
            /\ d.channels = channel_count
            /\ d.bytes = pixel_data.bytes

\* encode() returned a stream whose last opcode is an INDEX hit on a pixel
\* stored earlier in the same image, and the stream decodes to the image
C1_Witness ==
    /\ ReturnedOk
    /\ api = "encode"
    /\ NumChunks = 3
    /\ px # <<0, 0, 0, 0>>
    /\ Len(Body) >= 3
    /\ Body[Len(Body)] = BitOr(QOI_OP_INDEX, QoiHash(px))
    /\ QoiDecode(Output).bytes = pixel_data.bytes

(* C2: length bound.  Whenever a call returns Ok(n), n <= max_size() =       *)
(* width * height * (channels + 1) + 14 + 8.                                 *)
C2_LengthBound ==
    ReturnedOk =>
        /\ result.n <= options.width.lo * options.height.lo * (channel_count + 1)
                           + 14 + 8
        /\ max_size(options).val
             = USize(0, options.width.lo * options.height.lo * (channel_count + 1)
                          + 14 + 8)

\* a call returned exactly max_size() bytes for an image with pixels
C2_Witness ==
    /\ ReturnedOk
    /\ NumChunks >= 2
    /\ result.n = max_size(options).val.lo

(* C3: encode() never runs out of space.  For a valid input, encode()        *)
(* returns Ok; in its max_size()-byte buffer the header check and every      *)
(* per-pixel has(5) guard pass and every write, the trailer included, fits.  *)
C3_EncodeHasSpace ==
    (api = "encode" /\ ValidInput) =>
        /\ ~stream.overflowed
        /\ pc = "loop" /\ pos < NumChunks => has(stream, 5)
        /\ pc = "done" => /\ result.kind = "Ok"
                          /\ result.n = Len(stream.bytes)
                          /\ Output = CompleteStream

\* encode() returned Ok for an image of three pixels that each took five bytes
C3_Witness ==
    /\ ReturnedOk
    /\ api = "encode"
    /\ ValidInput
    /\ NumChunks = 3
    /\ result.n = 14 + 15 + 8

(* C4: encode_into errors out if the buffer is too small.  For a valid input *)
(* and a buffer shorter than the complete stream (header, body, final RUN    *)
(* byte, trailer), encode_into returns Err(Generic) and never Ok.            *)
C4_SmallBufferIsError ==
    (Returned /\ api = "encode_into" /\ ValidInput
        /\ stream.buf_len.lo < Len(CompleteStream)) =>
            result.kind = "Generic"

(* C5: trailer.  Whenever a call returns Ok(n), n >= 22 and the last eight   *)
(* of the first n output bytes are 00 00 00 00 00 00 00 01.                  *)
C5_Trailer ==
    ReturnedOk =>
        /\ result.n >= 22
        /\ SubSeq(Output, Len(Output) - 7, Len(Output)) = QoiTrailer

\* the single pixel of a 1x1 RGBA image
OnlyPixel == SubSeq(pixel_data.bytes, 1, 4)

\* a completed encoding of a 1x1 RGBA image whose pixel is not opaque
C6_Case ==
    /\ ReturnedOk
    /\ ~stream.overflowed
    /\ options = Options(USize(0, 1), USize(0, 1), "RGBA")
    /\ OnlyPixel[4] # 255

(* C6 as stated: for a 1x1 RGBA image whose pixel has alpha different from   *)
(* 255, the body between header and trailer is 0xFF, R, G, B, A.             *)
C6_AlphaChangeIsLiteral ==
    C6_Case => Body = <<QOI_OP_RGBA>> \o OnlyPixel

(* C6 amended: the same for every such pixel other than (0,0,0,0); the       *)
(* pixel (0,0,0,0) equals the fresh index slot 0 and is written as the one   *)
(* byte INDEX|0 = 0x00.                                                      *)
C6_AlphaChangeIsLiteralUnlessZero ==
    C6_Case =>
        Body = IF OnlyPixel = <<0, 0, 0, 0>>
               THEN <<0>>
               ELSE <<QOI_OP_RGBA>> \o OnlyPixel

\* a 1x1 RGBA image with a non-opaque, non-zero pixel was encoded
C6_Witness ==
    /\ C6_Case
    /\ OnlyPixel # <<0, 0, 0, 0>>
    /\ OnlyPixel[4] = 254
    /\ Len(Output) = 27

\* the 14 header bytes as a function of width, height, colour space and
\* colour characteristics
ExpectedHeader(w, h, cs, cc) ==
    <<113, 111, 105, 102>> \o BE4(w) \o BE4(h)
        \o <<IF cs = "RGB" THEN 3 ELSE 4, IF cc = "sRGB" THEN 0 ELSE 1>>

\* every pixel of the image equals the initial running pixel (0,0,0,255):
\* all-zero bytes for RGB
UniformImage ==
    /\ ValidInput
    /\ pixel_data.bytes =
          Flatten([k \in 1..NumChunks |-> <<0, 0, 0, 255>>], channel_count)

\* floor(n/62) bytes 0xFD, then RUN|(r-1) when r = n mod 62 > 0
RunBytes(n) ==
    [k \in 1..(n \div 62) |-> 253]
        \o (IF n % 62 > 0 THEN <<192 + (n % 62) - 1>> ELSE <<>>)

(* C7: a uniform image compresses to runs.  An image of N pixels all equal   *)
(* to (0,0,0,255) encodes to the 14-byte header, floor(N/62) bytes 0xFD,     *)
(* one byte RUN|(r-1) when r = N mod 62 > 0, and the 8-byte trailer.         *)
C7_UniformIsRuns ==
    (ReturnedOk /\ ~stream.overflowed /\ UniformImage) =>
        /\ Output = ExpectedHeader(options.width.lo, options.height.lo,
                                    options.colorspace, color_characteristics)
                      \o RunBytes(options.width.lo * options.height.lo)
                      \o QoiTrailer
        /\ Len(Body) = (options.width.lo * options.height.lo + 61) \div 62

\* a uniform image of two full runs and a remainder was encoded
C7_Witness ==
    /\ ReturnedOk
    /\ ~stream.overflowed
    /\ UniformImage
    /\ NumChunks = 125
    /\ Body = <<253, 253, 192>>

DimTooLarge == options.width.hi > 0 \/ options.height.hi > 0

OffendingDim == IF options.width.hi > 0 THEN options.width ELSE options.height

(* C8 as stated: for every input whose width or height exceeds 2^32-1 the    *)
(* call fails with TooLargeDimensions carrying the offending dimension       *)
(* (width when both are too large).                                          *)
C8_TooLargeAlways ==
    (Returned /\ DimTooLarge) => result = TooLargeDimensions(OffendingDim)

(* C8 amended: such a call never returns Ok.  It fails with                  *)
(* TooLargeDimensions(offending dimension, width first) when pixels.len()    *)
(* equals the computed width*height*channels and the buffer holds 14 bytes;  *)
(* a length mismatch is reported first, as Generic, then a buffer below 14   *)
(* bytes, as Generic; a build with overflow checks panics when the product   *)
(* overflows usize.                                                          *)
C8_TooLargeAfterLengthAndBuffer ==
    (Returned /\ DimTooLarge) =>
        /\ result.kind # "Ok"
        /\ result.kind = "panic" =>
              expected_len(options).ovf \/ max_size(options).ovf
        /\ result.kind # "panic" =>
              result =
                IF pixel_data.len # expected_len(options).val
                THEN Generic("Expected length doesn't match pixels length")
                ELSE IF stream.buf_len.hi = 0 /\ stream.buf_len.lo < 14
                THEN Generic("Cannot allocate internal space for headers")
                ELSE TooLargeDimensions(OffendingDim)

\* encode() on an RGB image of width 2^32 and height 1 with a pixel buffer
\* of the matching length failed with TooLargeDimensions(2^32)
C8_Witness ==
    /\ Returned
    /\ api = "encode"
    /\ options = Options(USize(1, 0), USize(0, 1), "RGB")
    /\ pixel_data.len = USize(3, 0)
    /\ result = TooLargeDimensions(USize(1, 0))

Unsupported == options.colorspace \notin {"RGB", "RGBA"}

(* C9 as stated: for every input whose colorspace is neither RGB nor RGBA    *)
(* the call fails with UnsupportedColorspace(got, [RGB, RGBA]).              *)
C9_UnsupportedAlways ==
    (Returned /\ Unsupported) =>
        result = UnsupportedColorspace(options.colorspace, <<"RGB", "RGBA">>)

(* C9 amended: such a call never returns Ok.  It fails with                  *)
(* UnsupportedColorspace(got, [RGB, RGBA]) when pixels.len() equals          *)
(* width*height*components, the buffer holds 14 bytes and both dimensions    *)
(* fit in 32 bits; a length mismatch, a buffer below 14 bytes and a          *)
(* too-large dimension are each reported before it.                          *)
C9_UnsupportedAfterOtherChecks ==
    (Returned /\ Unsupported) =>
        /\ result.kind # "Ok"
        /\ result.kind = "panic" =>
              expected_len(options).ovf \/ max_size(options).ovf
        /\ result.kind # "panic" =>
              result =
                IF pixel_data.len # expected_len(options).val
                THEN Generic("Expected length doesn't match pixels length")
                ELSE IF stream.buf_len.hi = 0 /\ stream.buf_len.lo < 14
                THEN Generic("Cannot allocate internal space for headers")
                ELSE IF DimTooLarge
                THEN TooLargeDimensions(OffendingDim)
                ELSE UnsupportedColorspace(options.colorspace, <<"RGB", "RGBA">>)

\* a YCbCr image of three bytes per pixel, with pixels, was refused
C9_Witness ==
    /\ Returned
    /\ options.colorspace = "YCbCr"
    /\ pixel_data.len.lo = 6
    /\ result = UnsupportedColorspace("YCbCr", <<"RGB", "RGBA">>)

(* C10: header layout and determinism.  Whenever encoding succeeds, bytes    *)
(* 0..4 are "qoif", 4..8 the width and 8..12 the height as big-endian u32,   *)
(* byte 12 is 3 for RGB and 4 for RGBA, byte 13 is 0 for sRGB and 1 for      *)
(* Linear: the first 14 bytes are a function of these four values alone.     *)
C10_Header ==
    ReturnedOk =>
        /\ Len(Output) >= 14
        /\ SubSeq(Output, 1, 14) =
              ExpectedHeader(options.width.lo, options.height.lo,
                             options.colorspace, color_characteristics)

\* a Linear image of width 0x01020304 was encoded
C10_Witness ==
    /\ ReturnedOk
    /\ color_characteristics = "Linear"
    /\ options.width.lo = 16909060
    /\ SubSeq(Output, 5, 8) = <<1, 2, 3, 4>>
    /\ Output[14] = 1

-----------------------------------------------------------------------------
\* the complete stream of the encoder's image under the colour
\* characteristics cc
StreamUnder(cc) ==
    LET h == encode_headers(pixel_data, options, cc,
                            ZByteWriter_new(USize(1, 0)), FALSE, "drop")
    IN  CompleteBody(h.stream, 0, StartPixel, StartPixel, FreshIndex, 0).bytes

OtherCharacteristics ==
    IF color_characteristics = "sRGB" THEN "Linear" ELSE "sRGB"

(* C11: set_color_characteristics changes one byte only.  Whenever encode()  *)
(* returns Ok, its output and the output for the same pixels and options     *)
(* under the other colour characteristics have the same length and are       *)
(* equal at every offset except offset 13, where they differ (0 for sRGB, 1  *)
(* for Linear); and under sRGB the output is the one of a freshly            *)
(* constructed encoder.                                                      *)
C11_OneByte ==
    (ReturnedOk /\ api = "encode") =>
        LET other == StreamUnder(OtherCharacteristics)
            fresh == StreamUnder(new(pixel_data, options).color_characteristics)
        IN  /\ Len(Output) = Len(other)
            /\ \A i \in 1..Len(Output) : i # 14 => Output[i] = other[i]
            /\ Output[14] = (IF color_characteristics = "Linear" THEN 1 ELSE 0)
            /\ other[14] = 1 - Output[14]
            /\ color_characteristics = "sRGB" => Output = fresh

\* encode() returned the stream of a three-pixel image after
\* set_color_characteristics(Linear): byte 13 is 1
C11_Witness ==
    /\ ReturnedOk
    /\ api = "encode"
    /\ color_characteristics = "Linear"
    /\ NumChunks = 3
    /\ Output[14] = 1
    /\ Output # StreamUnder("sRGB")

-----------------------------------------------------------------------------
\* what an encoder just built by new(pixel_data, options), given the colour
\* characteristics of the state, returns from one call under one build
\* (overflow checks on or off, a writer that drops or panics): the result
\* and the bytes in the buffer
RECURSIVE FreshLoop(_, _, _, _, _, _, _)
FreshLoop(w, k, p, prev, idx, r, mode) ==
    IF k = NumChunks
    THEN LET t == encode_trailer(w, r, mode)
         IN  [res |-> IF t.panicked THEN Panic ELSE Ok(position(t)),
              bytes |-> t.bytes]
    ELSE
        LET chunk == Chunk(k)
            q == [j \in 1..4 |-> IF j <= channel_count THEN chunk[j] ELSE p[j]]
            e == encode_pixel(w, q, prev, idx, r, mode)
        IN  IF ~has(w, 5)
            THEN [res |-> Generic("Not enough space"), bytes |-> w.bytes]
            ELSE IF e.stream.panicked
            THEN [res |-> Panic, bytes |-> e.stream.bytes]
            ELSE FreshLoop(e.stream, k + 1, q, q, e.index, e.run, mode)

FreshCall(entry, len, overflow_checks, mode) ==
    LET h == encode_headers(pixel_data, options, color_characteristics,
                            ZByteWriter_new(len), overflow_checks, mode)
    IN  IF entry = "encode" /\ max_size(options).ovf /\ overflow_checks
        THEN [res |-> Panic, bytes |-> <<>>]
        ELSE IF h.res.kind # "Ok"
        THEN [res |-> h.res, bytes |-> h.stream.bytes]
        ELSE FreshLoop(h.stream, 0, StartPixel, StartPixel, FreshIndex, 0, mode)

(* C12: the encoder is stateless across calls.  Whenever a call of encode or *)
(* encode_into returns, whatever calls were made on the encoder before it    *)
(* (the one before may have failed, and this call may have followed it at    *)
(* once), its result is the result a freshly constructed encoder returns     *)
(* for the same pixels, options, colour characteristics and buffer length    *)
(* under one of the builds, and for Ok the bytes are the same.               *)
C12_Stateless ==
    Returned =>
        \E overflow_checks \in BOOLEAN, mode \in OverflowOutcomes :
            LET f == FreshCall(api, stream.buf_len, overflow_checks, mode)
            IN  /\ result = f.res
                /\ result.kind = "Ok" => Output = SubSeq(f.bytes, 1, f.res.n)

\* a call returned Ok with a stream using the index table, right after a
\* call on the same encoder that failed for lack of space
C12_Witness ==
    /\ ReturnedOk
    /\ last_result = "Generic"
    /\ NumChunks = MaxCallPixels
    /\ index # FreshIndex
    /\ ~stream.overflowed
    /\ QoiDecode(Output).bytes = pixel_data.bytes

-----------------------------------------------------------------------------
(* The format sniffer of zune-image (crates/zune-image/src/codecs.rs).      *)
(* Option<SupportedDecoders> is written as the name of the decoder, or      *)
(* "None".                                                                  *)

\* the tails that follow a magic prefix have at most MaxTail bytes
MaxTail == 2

SupportedDecoders == {"Jpeg", "Png", "PPM", "PSD", "Farbfeld"}

MAGIC_BYTES ==
    << << <<137, 80, 78, 71, 13, 10, 26, 10>>, "Png" >>,
       << <<255, 216, 255>>, "Jpeg" >>,
       << <<80, 54>>, "PPM" >>,
       << <<80, 53>>, "PPM" >>,
       << <<56, 66, 80, 83>>, "PSD" >>,
       << <<102, 97, 114, 98, 102, 101, 108, 100>>, "Farbfeld" >> >>

\* a comparison that stops at the end of the shorter slice
starts_with_zipped(b, needle) ==
    \A i \in 1..Min(Len(b), Len(needle)) : b[i] = needle[i]

\* <[u8]>::starts_with
starts_with(b, needle) ==
    Len(b) >= Len(needle) /\ SubSeq(b, 1, Len(needle)) = needle

\* the loop of guess_format over a table, from entry i on
RECURSIVE guess_in(_, _, _)
guess_in(table, b, i) ==
    IF i > Len(table) THEN "None"
    ELSE IF starts_with(b, table[i][1]) THEN table[i][2]
    ELSE guess_in(table, b, i + 1)

guess_format(b) == guess_in(MAGIC_BYTES, b, 1)

\* the encoder is not in use
EncoderAtRest ==
    /\ pixel_data = Slice(<<>>)
    /\ options = Options(USize(0, 0), USize(0, 0), "RGBA")
    /\ color_characteristics = "sRGB"
    /\ pc = "idle"
    /\ api = "none"
    /\ stream = NoStream
    /\ index = FreshIndex
    /\ px = StartPixel
    /\ px_prev = StartPixel
    /\ run = 0
    /\ pos = 0
    /\ result = NoResult
    /\ last_result = "none"

encoder_vars ==
    <<pixel_data, options, color_characteristics, pc, api, stream, index, px,
      px_prev, run, pos, result, last_result>>

\* the inputs: a magic prefix with a tail, a magic prefix cut short, a magic
\* prefix with one byte changed (and a tail), and a tail alone
TailBytes == {0, 80, 255}

RECURSIVE SeqsUpTo(_, _)
SeqsUpTo(S, n) ==
    IF n = 0 THEN { <<>> }
    ELSE LET shorter == SeqsUpTo(S, n - 1)
         IN  shorter \cup { Append(s, x) : s \in shorter, x \in S }

Magics == { MAGIC_BYTES[i][1] : i \in 1..Len(MAGIC_BYTES) }

\* what follows a prefix: a few bytes, or another magic
Tails == SeqsUpTo(TailBytes, MaxTail) \cup Magics

SnifferInputs ==
    { m \o t : m \in Magics, t \in Tails }
        \cup UNION { { SubSeq(m, 1, n) : n \in 0..(Len(m) - 1) } : m \in Magics }
        \cup UNION { { [m EXCEPT ![k] = (@ + 1) % 256] \o t : k \in 1..Len(m), t \in Tails }
                        : m \in Magics }
        \cup Tails

InitSniff ==
    /\ EncoderAtRest
    /\ NoCrc
    /\ file_bytes \in SnifferInputs
    /\ guessed = "unset"

call_guess_format ==
    /\ guessed = "unset"
    /\ guessed' = guess_format(file_bytes)
    /\ UNCHANGED <<file_bytes, encoder_vars, crc_data, crc_seed, crc_calls,
                   crc_value>>

NextSniff == call_guess_format

SpecSniff == InitSniff /\ [][NextSniff]_vars

\* the table as the specification states it, and the tags of the entries an
\* input starts with
StatedMagics ==
    { << <<137, 80, 78, 71, 13, 10, 26, 10>>, "Png" >>,
      << <<255, 216, 255>>, "Jpeg" >>,
      << <<80, 54>>, "PPM" >>,
      << <<80, 53>>, "PPM" >>,
      << <<56, 66, 80, 83>>, "PSD" >>,
      << <<102, 97, 114, 98, 102, 101, 108, 100>>, "Farbfeld" >> }

BeginsWith(b, m) == Len(b) >= Len(m) /\ \A i \in 1..Len(m) : b[i] = m[i]

MatchingTags(b) == { e[2] : e \in { s \in StatedMagics : BeginsWith(b, s[1]) } }

(* C13: format sniffer.  Whenever guess_format has returned: an input that   *)
(* begins with one of the six magic prefixes (whatever follows) got the tag  *)
(* of that prefix; an input that begins with none of them (too short for     *)
(* every prefix it could match, one byte off, or empty) got None; the input  *)
(* matches entries of one tag at most, and the loop run over the table in    *)
(* any other order returns the same value.                                   *)
C13_Sniffer ==
    guessed # "unset" =>
        /\ Cardinality(MatchingTags(file_bytes)) <= 1
        /\ MatchingTags(file_bytes) = {} => guessed = "None"
        /\ MatchingTags(file_bytes) # {} => guessed \in MatchingTags(file_bytes)
        /\ \A p \in Permutations(1..Len(MAGIC_BYTES)) :
              guess_in([i \in 1..Len(MAGIC_BYTES) |-> MAGIC_BYTES[p[i]]],
                       file_bytes, 1) = guessed

\* guess_format returned PPM for "P5" followed by the JPEG magic
C13_Witness ==
    /\ guessed = "PPM"
    /\ file_bytes = <<80, 53, 255, 216, 255>>

-----------------------------------------------------------------------------
(* The checksum of zune-png (crates/zune-png/src/crc.rs).  A u32 is two     *)
(* 16-bit halves [hi, lo].  The tables of crc_tables.rs are computed from   *)
(* the reflected polynomial 0xEDB88320.                                     *)

\* the checksummed data has MaxCrcLen bytes
MaxCrcLen == 17
\* at most MaxCrcCalls calls of crc32_slice8 are chained
MaxCrcCalls == 2

RECURSIVE BitXor(_, _)
BitXor(a, b) ==
    IF a = 0 THEN b
    ELSE IF b = 0 THEN a
    ELSE ((a + b) % 2) + 2 * BitXor(a \div 2, b \div 2)

\* u32 ^ u32
Xor32(x, y) == [hi |-> BitXor(x.hi, y.hi), lo |-> BitXor(x.lo, y.lo)]

\* u32 >> n, for n < 16
Shr32(x, n) ==
    [hi |-> x.hi \div Pow2(n),
     lo |-> x.lo \div Pow2(n) + (x.hi % Pow2(n)) * Pow2(16 - n)]

\* (x >> 8k) & 0xFF, for k in 0..3
ByteOf(x, k) ==
    CASE k = 0 -> x.lo % 256
      [] k = 1 -> x.lo \div 256
      [] k = 2 -> x.hi % 256
      [] k = 3 -> x.hi \div 256

\* 0xEDB88320
CRC32_POLY == [hi |-> 60856, lo |-> 33568]

\* n steps of the bitwise reflected division
RECURSIVE crc32_bits(_, _)
crc32_bits(c, n) ==
    IF n = 0 THEN c
    ELSE crc32_bits(IF c.lo % 2 = 1 THEN Xor32(Shr32(c, 1), CRC32_POLY)
                    ELSE Shr32(c, 1),
                    n - 1)

CRC32_SLICE1_TABLE == [i \in 0..255 |-> crc32_bits(U32(i), 8)]

\* table k (entries 256k .. 256k + 255) advances table k - 1 by one zero byte
RECURSIVE slice_table(_)
slice_table(k) ==
    IF k = 0 THEN CRC32_SLICE1_TABLE
    ELSE LET below == slice_table(k - 1)
         IN  [i \in 0..255 |->
                 Xor32(Shr32(below[i], 8), CRC32_SLICE1_TABLE[below[i].lo % 256])]

CRC32_SLICE8_TABLE ==
    LET tables == [k \in 0..7 |-> slice_table(k)]
    IN  [j \in 0..2047 |-> tables[j \div 256][j % 256]]

\* the four bytes read with the most significant first
from_le_bytes_reversed(b) == [hi |-> b[1] * 256 + b[2], lo |-> b[3] * 256 + b[4]]

\* u32::from_le_bytes
from_le_bytes(b) == [hi |-> b[4] * 256 + b[3], lo |-> b[2] * 256 + b[1]]

\* the body of the loop over data.chunks_exact(8)
slice8_chunk(chunk, crc) ==
    LET v1 == from_le_bytes(SubSeq(chunk, 1, 4))
        v2 == from_le_bytes(SubSeq(chunk, 5, 8))
        x == Xor32(crc, v1)
    IN  Xor32(CRC32_SLICE8_TABLE[1792 + ByteOf(x, 0)],
        Xor32(CRC32_SLICE8_TABLE[1536 + ByteOf(x, 1)],
        Xor32(CRC32_SLICE8_TABLE[1280 + ByteOf(x, 2)],
        Xor32(CRC32_SLICE8_TABLE[1024 + ByteOf(x, 3)],
        Xor32(CRC32_SLICE8_TABLE[768 + ByteOf(v2, 0)],
        Xor32(CRC32_SLICE8_TABLE[512 + ByteOf(v2, 1)],
        Xor32(CRC32_SLICE8_TABLE[256 + ByteOf(v2, 2)],
              CRC32_SLICE8_TABLE[0 + ByteOf(v2, 3)])))))))

\* the body of the byte-at-a-time loops
slice1_byte(datum, crc) ==
    Xor32(Shr32(crc, 8), CRC32_SLICE1_TABLE[BitXor(crc.lo % 256, datum)])

\* the loop over the chunks i, i+1, .. of data.chunks_exact(8)
RECURSIVE slice8_chunks(_, _, _)
slice8_chunks(data, i, crc) ==
    IF 8 * i > Len(data) THEN crc
    ELSE slice8_chunks(data, i + 1,
                       slice8_chunk(SubSeq(data, 8 * i - 7, 8 * i), crc))

\* a byte-at-a-time loop over the bytes i, i+1, .. of data
RECURSIVE slice1_bytes(_, _, _)
slice1_bytes(data, i, crc) ==
    IF i > Len(data) THEN crc
    ELSE slice1_bytes(data, i + 1, slice1_byte(data[i], crc))

\* a remainder loop that skips the last byte of the remainder
crc32_slice8_short_tail(data, crc) ==
    LET whole == 8 * (Len(data) \div 8)
    IN  slice1_bytes(SubSeq(data, 1, Len(data) - 1), whole + 1,
                     slice8_chunks(data, 1, crc))

crc32_slice8(data, crc) ==
    LET whole == 8 * (Len(data) \div 8)
    IN  slice1_bytes(data, whole + 1, slice8_chunks(data, 1, crc))

_crc32_slice1(data, crc) == slice1_bytes(data, 1, crc)

\* the inputs: MaxCrcLen bytes a + b, a + 2b, a + 3b, .. (mod 256); with
\* a = 48 and b = 1 they begin with the ASCII digits "123456789"
CrcData ==
    { [k \in 1..MaxCrcLen |-> (a + b * k) % 256] : a \in {0, 48, 255}, b \in {0, 1, 37} }

\* 0, 0xFFFFFFFF and 0x12345678
CrcSeeds == { U32(0), [hi |-> 65535, lo |-> 65535], [hi |-> 4660, lo |-> 22136] }

RECURSIVE SumOf(_)
SumOf(s) == IF s = <<>> THEN 0 ELSE Head(s) + SumOf(Tail(s))

\* the bytes of crc_data passed to the calls so far
CrcFed == SubSeq(crc_data, 1, SumOf(crc_calls))

InitCrc ==
    /\ EncoderAtRest
    /\ NoSniffer
    /\ crc_data \in CrcData
    /\ crc_seed \in CrcSeeds
    /\ crc_calls = <<>>
    /\ crc_value = crc_seed

\* crc = crc32_slice8(next n bytes, crc)
call_crc32_slice8(n) ==
    /\ Len(crc_calls) < MaxCrcCalls
    /\ SumOf(crc_calls) + n <= Len(crc_data)
    /\ crc_value' = crc32_slice8(SubSeq(crc_data, SumOf(crc_calls) + 1,
                                        SumOf(crc_calls) + n),
                                 crc_value)
    /\ crc_calls' = Append(crc_calls, n)
    /\ UNCHANGED <<crc_data, crc_seed, file_bytes, guessed, encoder_vars>>

NextCrc == \E n \in 0..MaxCrcLen : call_crc32_slice8(n)

SpecCrc == InitCrc /\ [][NextCrc]_vars

\* the slice passed to the call that takes crc_calls to crc_calls'
SliceOfStep ==
    SubSeq(crc_data, SumOf(crc_calls) + 1, SumOf(crc_calls'))

(* C14: CRC cross-check.  Every call crc32_slice8(data, seed), for a slice   *)
(* of any length (0 to MaxCrcLen bytes, multiples of 8 or not, starting at   *)
(* any offset of the input) and any seed (the initial ones and every value   *)
(* an earlier call returned), returns what the byte-at-a-time                *)
(* _crc32_slice1(data, seed) returns.                                        *)
C14_Slice8IsSlice1 ==
    [][ crc_calls' # crc_calls =>
            crc_value' = _crc32_slice1(SliceOfStep, crc_value) ]_vars

\* one call on the nine bytes "123456789" with seed 0xFFFFFFFF returned
\* 0x340BC6D9, the complement of the check value 0xCBF43926
C14_Witness ==
    /\ crc_calls = <<9>>
    /\ CrcFed = <<49, 50, 51, 52, 53, 54, 55, 56, 57>>
    /\ crc_seed = [hi |-> 65535, lo |-> 65535]
    /\ crc_value = [hi |-> 13323, lo |-> 50905]
    /\ crc_value = _crc32_slice1(CrcFed, crc_seed)

(* C15: CRC composability.  After crc32_slice8 was called on a and then, *)
(* seeded with the value returned, on b, the value is the one of a single   *)
(* call on a || b with the first seed: for every length of a and b, so      *)
(* also when the 8-byte chunks of the two computations start at different   *)
(* offsets.                                                                 *)
C15_Composable ==
    crc_value = crc32_slice8(CrcFed, crc_seed)

\* a of 3 bytes, then b of 14 bytes: b's first chunk is bytes 3..10 of
\* a || b, which one call splits into the chunks 0..7 and 8..15
C15_Witness ==
    /\ crc_calls = <<3, 14>>
    /\ crc_data[1] # crc_data[2]
    /\ crc_seed = [hi |-> 4660, lo |-> 22136]
    /\ crc_value = crc32_slice8(crc_data, crc_seed)
    /\ crc_value # crc32_slice8(SubSeq(crc_data, 4, 17), crc_seed)

-----------------------------------------------------------------------------
\* the pixel loop is about to process a pixel and its has(5) guard passes
GuardPasses == pc = "loop" /\ pos < NumChunks /\ has(stream, 5)

(* C16: five bytes is the worst-case single-pixel expansion.  A pixel step  *)
(* whose has(5) guard passes writes at most 5 bytes (a pending-run flush     *)
(* plus the pixel's own opcode), and each of its writes fits in the buffer:  *)
(* no write of the step overflows, dropped or panicking.                     *)
C16_PixelFitsInFive ==
    [][ GuardPasses =>
            /\ Len(stream'.bytes) <= Len(stream.bytes) + 5
            /\ stream'.overflowed = stream.overflowed
            /\ ~stream'.panicked ]_vars

-----------------------------------------------------------------------------
\* the bytes a step appends to the buffer
Appended == SubSeq(stream'.bytes, Len(stream.bytes) + 1, Len(stream'.bytes))

\* the RUN bytes: 0xC0 | (len - 1) for len in 1..62, that is 0xC0 .. 0xFD
RunByteValues == { 192 + (len - 1) : len \in 1..62 }

\* the pixel the loop is about to read
NextPixel ==
    [k \in 1..4 |-> IF k <= channel_count THEN Chunk(pos)[k] ELSE px[k]]

\* a pixel step that extends the run, and a pixel step or the final step
\* that flushes it
RunGrows == GuardPasses /\ NextPixel = px_prev

LoopFlush == GuardPasses /\ NextPixel # px_prev /\ run > 0

FinalFlush == pc = "loop" /\ pos = NumChunks /\ run > 0

(* C17: run counter range and tag separation.  The run counter is in 0..61  *)
(* before and after every step: a pixel equal to the previous one raises it  *)
(* by one and writes nothing, except that the 62nd writes the RUN byte 0xFD  *)
(* and resets it to 0.  A flush, in the loop or after it, writes exactly one *)
(* RUN byte, 0xC0 + (run - 1) with run in 1..62, followed by a byte that is  *)
(* no RUN byte; that value is within 0xC0..0xFD, its low six bits are at     *)
(* most 61, and it is neither 0xFE nor 0xFF.  (The flush after the loop      *)
(* writes its byte when the buffer has room for it.)                         *)
C17_RunCounter ==
    [][ /\ run \in 0..61
        /\ run' \in 0..61
        /\ RunByteValues = 192..253
        /\ \A b \in RunByteValues : b % 64 <= 61 /\ b # 254 /\ b # 255
        /\ (RunGrows /\ run + 1 < 62) =>
              run' = run + 1 /\ Appended = <<>>
        /\ (RunGrows /\ run + 1 = 62) =>
              run' = 0 /\ Appended = <<192 + (62 - 1)>>
        /\ LoopFlush =>
              /\ run' = 0
              /\ Len(Appended) >= 2
              /\ Appended[1] = 192 + (run - 1)
              /\ Appended[2] \notin RunByteValues
        /\ (FinalFlush /\ has(stream, 1)) =>
              /\ Appended # <<>>
              /\ Appended[1] = 192 + (run - 1)
              /\ \A i \in 2..Len(Appended) : Appended[i] \notin RunByteValues
      ]_vars

\* the 62nd pixel of a run has just been consumed: the RUN byte 0xFD is the
\* last byte written and the counter is back at 0
C17_Witness ==
    /\ pc = "loop"
    /\ pos = 62
    /\ run = 0
    /\ px = px_prev
    /\ stream.bytes[Len(stream.bytes)] = 253

-----------------------------------------------------------------------------
\* the k-th pixel of the image (from 0) as the loop sees it: an RGB pixel
\* keeps the alpha 255 of the initial running pixel
PixelAt(k) == [j \in 1..4 |-> IF j <= channel_count THEN Chunk(k)[j] ELSE 255]

\* every pixel consumed so far equals the initial running pixel (0,0,0,255)
LeadingRun == \A k \in 0..(pos - 1) : PixelAt(k) = <<0, 0, 0, 255>>

\* a pixel step that emits DIFF, LUMA, RGB or RGBA, and one that emits the
\* RUN byte of a full run
LiteralStep ==
    GuardPasses /\ NextPixel # px_prev /\ index[QoiHash(NextPixel)] # NextPixel

FullRunStep == RunGrows /\ run + 1 = 62

(* C18 as stated: index-table invariant.  After every DIFF, LUMA, RGB, RGBA  *)
(* or RUN emission the index slot (r*3 + g*5 + b*7 + a*11) mod 64 of the     *)
(* pixel the opcode encodes holds that pixel, and after every non-run        *)
(* emission px_prev is the pixel just encoded.                               *)
C18_IndexHoldsEncoded ==
    [][ /\ LiteralStep => index'[QoiHash(NextPixel)] = NextPixel
        /\ FullRunStep => index'[QoiHash(NextPixel)] = NextPixel
        /\ (LoopFlush \/ FinalFlush) => index[QoiHash(px_prev)] = px_prev
        /\ (GuardPasses /\ NextPixel # px_prev /\ pc' = "loop") =>
              px_prev' = NextPixel
      ]_vars

(* C18, corrected: after every DIFF, LUMA, RGB or RGBA emission the index    *)
(* slot of the encoded pixel holds that pixel; after a RUN emission the slot *)
(* of the run's pixel holds it unless the run is the leading run of the      *)
(* image, made of pixels equal to the initial running pixel (0,0,0,255),     *)
(* which the encoder never stores: its slot 53 then still holds (0,0,0,0).   *)
(* After every non-run emission px_prev is the pixel just encoded.           *)
C18_IndexHoldsEncodedButLeadingRun ==
    [][ /\ LiteralStep => index'[QoiHash(NextPixel)] = NextPixel
        /\ FullRunStep =>
              IF LeadingRun
              THEN NextPixel = <<0, 0, 0, 255>> /\ index'[53] = <<0, 0, 0, 0>>
              ELSE index'[QoiHash(NextPixel)] = NextPixel
        /\ (LoopFlush \/ FinalFlush) =>
              IF LeadingRun
              THEN px_prev = <<0, 0, 0, 255>> /\ index[53] = <<0, 0, 0, 0>>
              ELSE index[QoiHash(px_prev)] = px_prev
        /\ (GuardPasses /\ NextPixel # px_prev /\ pc' = "loop") =>
              px_prev' = NextPixel
      ]_vars

\* the RUN byte of a full run of (10,20,30,255) has just been written, 62
\* pixels after the RGB opcode that stored the pixel: its slot holds it
C18_Witness ==
    /\ pc = "loop"
    /\ pos = 63
    /\ run = 0
    /\ px_prev = <<10, 20, 30, 255>>
    /\ stream.bytes[Len(stream.bytes)] = 253
    /\ ~LeadingRun
    /\ index[QoiHash(px_prev)] = px_prev

-----------------------------------------------------------------------------
(* The opcode chosen for a pixel, for pairs of pixels around every limit of *)
(* the DIFF and LUMA ranges: encode() of the 2x1 RGBA images <<prev, p>>.   *)

OpcodePrevs == { <<128, 128, 128, 255>>, <<0, 0, 0, 255>>, <<250, 3, 100, 7>> }

OpcodeDeltas == {-33, -32, -9, -8, -3, -2, -1, 0, 1, 2, 7, 8, 31, 32}

OpcodeImages ==
    { prev \o << (prev[1] + dr) % 256, (prev[2] + dg) % 256,
                 (prev[3] + db) % 256, (prev[4] + da) % 256 >> :
        prev \in OpcodePrevs,
        dr \in OpcodeDeltas, dg \in OpcodeDeltas, db \in OpcodeDeltas,
        da \in {0, 1} }

InitOpcode ==
    /\ pixel_data \in { Slice(img) : img \in OpcodeImages }
    /\ options = Options(USize(0, 2), USize(0, 1), "RGBA")
    /\ color_characteristics = "sRGB"
    /\ pc = "idle"
    /\ api = "none"
    /\ stream = NoStream
    /\ index = FreshIndex
    /\ px = StartPixel
    /\ px_prev = StartPixel
    /\ run = 0
    /\ pos = 0
    /\ result = NoResult
    /\ last_result = "none"
    /\ NoSniffer
    /\ NoCrc

NextOpcode ==
    \/ encode
    \/ PixelStep
    \/ Finish

SpecOpcode == InitOpcode /\ [][NextOpcode]_vars

\* an 8-bit wrapping difference read as a number in -128..127
Signed8(x) == IF x % 256 >= 128 THEN (x % 256) - 256 ELSE x % 256

\* the encoding the rules give the pixel p after the pixel prev
StatedOpcode(p, prev) ==
    LET vr == Signed8(p[1] - prev[1])
        vg == Signed8(p[2] - prev[2])
        vb == Signed8(p[3] - prev[3])
        vr_vg == Signed8(vr - vg)
        vb_vg == Signed8(vb - vg)
        same_alpha == p[4] = prev[4]
    IN  IF same_alpha /\ vr \in -2..1 /\ vg \in -2..1 /\ vb \in -2..1
        THEN << 64 + (vr + 2) * 16 + (vg + 2) * 4 + (vb + 2) >>
        ELSE IF same_alpha /\ vg \in -32..31 /\ vr_vg \in -8..7 /\ vb_vg \in -8..7
        THEN << 128 + (vg + 32), (vr_vg + 8) * 16 + (vb_vg + 8) >>
        ELSE IF same_alpha
        THEN << 254, p[1], p[2], p[3] >>
        ELSE << 255, p[1], p[2], p[3], p[4] >>

\* the two tag bits the length of an encoding goes with
StatedTag(n) ==
    CASE n = 1 -> 1
      [] n = 2 -> 2
      [] n = 4 -> 3
      [] n = 5 -> 3

(* C19: opcode selection and packing.  A pixel that differs from the         *)
(* previous one and misses the index table gets, after the flush of a        *)
(* pending run, exactly one encoding, the first that applies of DIFF         *)
(* (alphas equal, each 8-bit wrapping delta in -2..1: one byte               *)
(* 0x40 + (vr+2)*16 + (vg+2)*4 + (vb+2)), LUMA (alphas equal, vg in -32..31, *)
(* vr-vg and vb-vg in -8..7: 0x80 + (vg+32), then (vr-vg+8)*16 + (vb-vg+8)), *)
(* RGB (alphas equal: 0xFE, r, g, b) and RGBA (0xFF, r, g, b, a).  The       *)
(* fields are added, not or-ed, in this statement, so each fits its width,   *)
(* and the two top bits of the first byte are the tag: 01, 10 or 11.         *)
C19_Opcode ==
    [][ LiteralStep =>
            LET flush == IF run > 0 THEN <<192 + (run - 1)>> ELSE <<>>
                code == StatedOpcode(NextPixel, px_prev)
            IN  /\ Appended = flush \o code
                /\ \A i \in 1..Len(code) : code[i] \in 0..255
                /\ code[1] \div 64 = StatedTag(Len(code))
      ]_vars

\* LUMA with both 4-bit fields at their maximum: after (128,128,128,255) the
\* pixel (136,129,136,255) has vg = 1, vr-vg = 7, vb-vg = 7 and was written
\* as 0xA1, 0xFF
C19_Witness ==
    /\ pc = "loop"
    /\ pos = 2
    /\ PixelAt(0) = <<128, 128, 128, 255>>
    /\ PixelAt(1) = <<136, 129, 136, 255>>
    /\ SubSeq(stream.bytes, Len(stream.bytes) - 1, Len(stream.bytes)) = <<161, 255>>

====
